---- MODULE Spec2Model ----
(***************************************************************************)
(* A model of the wave-field engine of src/src/WaveSimulation.ts.          *)
(*                                                                         *)
(* Numbers.  A Float32Array cell holds an integer (the representable       *)
(* values are the integers of magnitude at most F32Max) or one of PInf,    *)
(* NInf, NaN.  JavaScript's double arithmetic between a read and a store   *)
(* is exact rational arithmetic carried as numerator/denominator; a store  *)
(* rounds to the nearest representable value and overflows to +-Infinity   *)
(* beyond F32Max.  waveSpeed and dt are held in tenths, damping in         *)
(* thousandths, positions of sources and walls as pixel numerators over    *)
(* cellSize, slit bounds in hundredths, angles in quarter turns.           *)
(***************************************************************************)
EXTENDS Integers, Sequences, FiniteSets, TLC

\* ---------------------------------------------------------------- bounds
MaxSteps == 2
MaxEdits == 3

\* ------------------------------------------------------ program constants
CflLimitTenths == 5
ClampMax == 50
WallTolerance == 70
EnergyDecay == 997
DefaultWaveSpeed == 5
DefaultDamping == 995
DefaultDt == 10
GuardShift == 4
\* the length of the pre-allocated sample buffer, 256 in the code, scaled to
\* the sample counts of the model
SampleBufferLen == 2

\* the largest count a loop counter held in a double still steps past by
\* s++: 2^53 in the code, scaled to the sweep counts of the model
ExactCount == 32

\* Float32Array range and the non-finite values
F32Max == 1000
PInf == 2000000000
NInf == -2000000000
NaN == 2000000001

\* ------------------------------------------------------------- arithmetic
Max(a, b) == IF a >= b THEN a ELSE b
Min(a, b) == IF a <= b THEN a ELSE b
Abs(a) == IF a < 0 THEN -a ELSE a

RECURSIVE GCD(_, _)
GCD(a, b) == IF b = 0 THEN a ELSE GCD(b, a % b)

\* Math.ceil(n/d) and Math.floor(n/d), d > 0
FloorDiv(n, d) == n \div d
CeilDiv(n, d) == -((-n) \div d)
\* Math.round(n/d), d > 0: halves go towards +Infinity
JsRound(n, d) == (2 * n + d) \div (2 * d)
\* the nearest representable value of the exact quotient n/d, d > 0
RoundDiv(n, d) == IF n >= 0 THEN (2 * n + d) \div (2 * d) ELSE -((2 * (-n) + d) \div (2 * d))

IsNaN(v) == v = NaN
IsInf(v) == v = PInf \/ v = NInf
IsFiniteJs(v) == ~IsNaN(v) /\ ~IsInf(v)

\* k * v for an integer k and a double v
XScale(k, v) ==
    IF IsNaN(v) THEN NaN
    ELSE IF IsInf(v) THEN (IF k = 0 THEN NaN ELSE IF k > 0 THEN v ELSE -v)
    ELSE k * v

\* a + b for doubles
XAdd(a, b) ==
    IF IsNaN(a) \/ IsNaN(b) THEN NaN
    ELSE IF IsInf(a) THEN (IF IsInf(b) /\ a # b THEN NaN ELSE a)
    ELSE IF IsInf(b) THEN b
    ELSE a + b

\* Math.abs
XAbs(v) == IF IsNaN(v) THEN NaN ELSE IF IsInf(v) THEN PInf ELSE Abs(v)

\* a >= b between doubles: false when either is NaN
XGe(a, b) == ~IsNaN(a) /\ ~IsNaN(b) /\ a >= b

\* Math.max
XMax(a, b) == IF IsNaN(a) \/ IsNaN(b) THEN NaN ELSE Max(a, b)

\* the store of the double n/d (d > 0) into a Float32Array cell
ToF32(n, d) ==
    IF IsNaN(n) \/ IsInf(n) THEN n
    ELSE LET q == RoundDiv(n, d) IN
         IF q > F32Max THEN PInf ELSE IF q < -F32Max THEN NInf ELSE q

\* a typed array read: an index outside the array reads undefined, which
\* arithmetic and a Float32Array store turn into NaN
Rd(a, i) == IF i >= 0 /\ i < Len(a) THEN a[i + 1] ELSE NaN
\* a typed array write: an index outside the array is ignored
Wr(a, i, v) == IF i >= 0 /\ i < Len(a) THEN [a EXCEPT ![i + 1] = v] ELSE a

\* Math.sin at a whole number of quarter turns
SinQ(a) == CASE a % 4 = 0 -> 0 [] a % 4 = 1 -> 1 [] a % 4 = 2 -> 0 [] OTHER -> -1

Zeros(n) == [i \in 1..n |-> 0]

\* ------------------------------------------------------------------ state
VARIABLES
    width, height, cellSize, cols, rows,
    current, previous, velocity, energyMap, energyTrailEnabled,
    wallMask, wallMaskDirty, sampleBuffer,
    waveSpeed, damping, dt,
    sources, walls, reflectiveBoundaries,
    \* the observer: the last operation, whether a corrupted cell awaits its
    \* step, the sweeps and sub-step size of the last step, the last query with
    \* its result, the operation counts
    lastOp, taint, sweeps, subDt, call, ret, held, steps, edits,
    frameCount, elapsedNow, fpsRef, degradedRef, lowFrameCount, highFrameCount,
    perfState, notified, lowTime, highTime,
    isDraggingRef, dragSourceRef, timeRef, sourceIds, nextId, dragged, events

simVars == <<width, height, cellSize, cols, rows, current, previous, velocity,
             energyMap, energyTrailEnabled, wallMask, wallMaskDirty, sampleBuffer,
             waveSpeed, damping, dt, sources, walls, reflectiveBoundaries>>
\* PerformanceMonitor: the refs and the state of the component (elapsedNow is
\* performance.now() - lastTimeRef.current at the last tick, times in ms), the
\* arguments onDegradationChange was called with, and the window time below
\* DEGRADE_FPS since the flag was last false again and above RECOVER_FPS since
\* the last window below DEGRADE_FPS
perfVars == <<frameCount, elapsedNow, fpsRef, degradedRef, lowFrameCount, highFrameCount,
              perfState, notified, lowTime, highTime>>
\* App: the drag refs, and for the observer an identity for every entry of
\* sim.sources (sourceIds[k] names sources[k] in the specification of the
\* pointer handlers), the identity the drag in progress picked up (0: none)
\* and the number of pointer and keyboard events handled
dragVars == <<isDraggingRef, dragSourceRef, sourceIds, nextId, dragged, events>>
uiVars == <<dragVars, timeRef>>
vars == <<simVars, lastOp, taint, sweeps, subDt, call, ret, held, steps, edits, perfVars,
          uiVars>>

getIndex(x, y) == y * cols + x


\* ------------------------------------------------------------ wall geometry
\* distanceToLine(x, y, wall) < 0.7, compared as squares over the common
\* denominator cellSize^2 * len2
isPointOnWall(x, y, wall) ==
    LET ax == x * cellSize - wall.x1
        ay == y * cellSize - wall.y1
        bx == x * cellSize - wall.x2
        by == y * cellSize - wall.y2
        dx == wall.x2 - wall.x1
        dy == wall.y2 - wall.y1
        len2 == dx * dx + dy * dy
        dot == ax * dx + ay * dy
        tol2 == WallTolerance * WallTolerance * cellSize * cellSize
    IN  IF len2 = 0 THEN 10000 * (ax * ax + ay * ay) < tol2
        ELSE IF dot <= 0 THEN 10000 * (ax * ax + ay * ay) < tol2
        ELSE IF dot >= len2 THEN 10000 * (bx * bx + by * by) < tol2
        ELSE 10000 * ((ax * ax + ay * ay) * len2 - dot * dot) < tol2 * len2

\* t >= slit.start && t <= slit.end for t = getParametricPosition(x, y, wall)
InSlit(x, y, wall, slit) ==
    LET dx == wall.x2 - wall.x1
        dy == wall.y2 - wall.y1
        len2 == dx * dx + dy * dy
        dot == (x * cellSize - wall.x1) * dx + (y * cellSize - wall.y1) * dy
    IN  IF len2 = 0 THEN 0 >= slit.start /\ 0 <= slit.end
        ELSE 100 * dot >= slit.start * len2 /\ 100 * dot <= slit.end * len2

\* the first wall of the list the cell lies on decides
RECURSIVE isInsideWallFrom(_, _, _, _)
isInsideWallFrom(x, y, ws, k) ==
    IF k > Len(ws) THEN FALSE
    ELSE IF isPointOnWall(x, y, ws[k])
         THEN ~(\E j \in 1..Len(ws[k].slits) : InSlit(x, y, ws[k], ws[k].slits[j]))
         ELSE isInsideWallFrom(x, y, ws, k + 1)

isInsideWall(x, y, ws) == isInsideWallFrom(x, y, ws, 1)

MaskOf(ws) ==
    [i \in 1..(cols * rows) |->
        IF isInsideWall((i - 1) % cols, (i - 1) \div cols, ws) THEN 1 ELSE 0]

\* a mask that is never rebuilt
RebuiltMaskStale(mask, dirty, ws) == mask

\* a refresh that clears the mask before it tests the flag
RebuiltMaskCleared(mask, dirty, ws) ==
    IF ~dirty \/ Len(ws) = 0 THEN Zeros(Len(mask)) ELSE MaskOf(ws)

\* rebuildWallMask as a function of the mask, the flag and the wall list
RebuiltMask(mask, dirty, ws) ==
    IF ~dirty THEN mask
    ELSE IF Len(ws) = 0 THEN Zeros(Len(mask))
    ELSE MaskOf(ws)

\* ------------------------------------------------------------- the stepper
\* The loops of the code are recursive operators.  Each tests the length of
\* the array it has just computed before it goes on: the test is always true
\* and only makes TLC finish one iteration before it starts the next.
\* a step count taken with Math.floor, and one taken as floor + 1
SubStepsOfFloor(ws, d) == Max(1, FloorDiv(ws * d, 10 * CflLimitTenths))
SubStepsOfNext(ws, d) == Max(1, FloorDiv(ws * d, 10 * CflLimitTenths) + 1)

\* subSteps = Math.max(1, Math.ceil(waveSpeed * dt / CFL_LIMIT))
SubStepsOf(ws, d) == Max(1, CeilDiv(ws * d, 10 * CflLimitTenths))

\* Math.cos at a whole number of quarter turns
CosQ(a) == SinQ(a + 1)

\* the denominator of a source's x, y, vx and vy: addSource stores pixel
\* numerators over cellSize, a moving source carries its own denominator
PosDen(s) == IF "den" \in DOMAIN s THEN s.den ELSE cellSize

\* the same source with x, y, vx, vy and den in lowest terms
Reduced(s) ==
    LET g == GCD(GCD(GCD(GCD(Abs(s.x), Abs(s.y)), Abs(s.vx)), Abs(s.vy)), s.den)
    IN  [s EXCEPT !.x = s.x \div g, !.y = s.y \div g, !.vx = s.vx \div g,
                  !.vy = s.vy \div g, !.den = s.den \div g]

\* source.orbitCenterX != null && source.orbitRadius != null &&
\* source.orbitSpeed != null: the three are set together
IsOrbital(s) == "orbitCenterX" \in DOMAIN s

\* step, "Update orbital sources": orbitCenterX, orbitCenterY and
\* orbitRadius are pixel numerators over cellSize, orbitSpeed and orbitAngle
\* whole quarter turns; the result is over 10 * cellSize * den
OrbitalUpdate(s) ==
    IF ~IsOrbital(s) THEN s
    ELSE LET angle == s.orbitAngle + s.orbitSpeed
             newX == s.orbitCenterX + s.orbitRadius * CosQ(angle)
             newY == s.orbitCenterY + s.orbitRadius * SinQ(angle)
         IN  Reduced([x |-> 10 * s.den * newX, y |-> 10 * s.den * newY,
                      vx |-> newX * s.den - s.x * cellSize,
                      vy |-> newY * s.den - s.y * cellSize,
                      den |-> 10 * cellSize * s.den] @@ [s EXCEPT !.orbitAngle = angle])

\* step, "Update source position for Doppler/manual velocity": a source
\* that is active, whose orbitCenterX is undefined or 0, moves by vx * dt
\* and vy * dt when these are not 0 (dt in tenths)
LinearUpdate(s) ==
    IF ~s.active \/ (IsOrbital(s) /\ s.orbitCenterX # 0) \/ "vx" \notin DOMAIN s THEN s
    ELSE Reduced([s EXCEPT !.x = 10 * s.x + s.vx * dt, !.y = 10 * s.y + s.vy * dt,
                           !.vx = 10 * s.vx, !.vy = 10 * s.vy, !.den = 10 * s.den])

\* Math.sin(time * freq + source.phase) with freq = source.frequency +
\* (source.vx || 0) * 0.001: at time 0 the product is 0 for every freq, and
\* without a velocity freq is the frequency, a whole number of quarter turns
SourceSine(s, time) ==
    CASE time = 0 -> SinQ(s.phase)
      [] time # 0 /\ ("vx" \notin DOMAIN s \/ s.vx = 0) -> SinQ(time * s.frequency + s.phase)

\* the source list after the two source loops of a step
SourcesAfterStep(srcs) ==
    LET moved == [k \in 1..Len(srcs) |-> LinearUpdate(OrbitalUpdate(srcs[k]))]
    IN  IF \A k \in 1..Len(srcs) : moved[k] = srcs[k] THEN srcs ELSE moved

\* a test that leaves out if (!source.active) continue
InjectsInactive(s, sx, sy) == sx >= 0 /\ sx < cols /\ sy >= 0 /\ sy < rows

\* the source is active and its rounded position is a cell of the grid
Injects(s, sx, sy) == s.active /\ sx >= 0 /\ sx < cols /\ sy >= 0 /\ sy < rows

\* source injection, source by source
RECURSIVE InjectFrom(_, _, _, _)
InjectFrom(cur, srcs, k, time) ==
    IF k > Len(srcs) THEN cur
    ELSE LET s == srcs[k]
             sx == JsRound(s.x, PosDen(s))
             sy == JsRound(s.y, PosDen(s))
             add == s.amplitude * SourceSine(s, time)
             done == IF Injects(s, sx, sy)
                     THEN Wr(cur, sy * cols + sx,
                             ToF32(XAdd(Rd(cur, sy * cols + sx), add), 1))
                     ELSE cur
         IN  IF Len(done) = Len(cur) THEN InjectFrom(done, srcs, k + 1, time) ELSE cur

\* the update of one open interior cell, in place
OpenCell(cp, idx, c2n, c2d, dn, dd) ==
    LET c == Rd(cp.cur, idx)
        laplacian == XAdd(XAdd(XAdd(XAdd(Rd(cp.cur, idx + 1), Rd(cp.cur, idx - 1)),
                                    Rd(cp.cur, idx + cols)), Rd(cp.cur, idx - cols)),
                          XScale(-4, c))
        num == XScale(dn, XAdd(XAdd(XScale(2 * c2d, c), XScale(-c2d, Rd(cp.prev, idx))),
                               XScale(c2n, laplacian)))
        den == c2d * dd
        newValue == IF IsNaN(num) THEN NaN
                    ELSE IF num = PInf THEN ClampMax
                    ELSE IF num = NInf THEN -ClampMax
                    ELSE IF num > ClampMax * den THEN ClampMax
                    ELSE IF num < -ClampMax * den THEN -ClampMax
                    ELSE RoundDiv(num, den)
    IN  [cur |-> Wr(cp.cur, idx, newValue), prev |-> Wr(cp.prev, idx, c)]

\* a sweep that never consults the mask
SweepCellNoMask(cp, idx, mask, c2n, c2d, dn, dd) == OpenCell(cp, idx, c2n, c2d, dn, dd)

\* one interior cell of the sweep: a masked cell is zeroed and skipped
SweepCell(cp, idx, mask, c2n, c2d, dn, dd) ==
    IF mask[idx + 1] # 0
    THEN [cur |-> Wr(cp.cur, idx, 0), prev |-> Wr(cp.prev, idx, 0)]
    ELSE OpenCell(cp, idx, c2n, c2d, dn, dd)

\* the interior cells in the order of the two nested loops
RECURSIVE SweepFrom(_, _, _, _, _, _, _)
SweepFrom(cp, k, mask, c2n, c2d, dn, dd) ==
    IF cols < 3 \/ rows < 3 \/ k >= (cols - 2) * (rows - 2) THEN cp
    ELSE LET done == SweepCell(cp, (1 + (k \div (cols - 2))) * cols + 1 + (k % (cols - 2)),
                               mask, c2n, c2d, dn, dd)
         IN  IF Len(done.cur) = Len(done.prev)
             THEN SweepFrom(done, k + 1, mask, c2n, c2d, dn, dd)
             ELSE cp

\* applyBoundaryConditions: the loop over x, then the loop over y
RECURSIVE BoundaryX(_, _, _)
BoundaryX(cur, x, refl) ==
    IF x >= cols THEN cur
    ELSE LET a == Wr(cur, getIndex(x, 0),
                     IF refl THEN Rd(cur, getIndex(x, 1)) ELSE 0)
             b == Wr(a, getIndex(x, rows - 1),
                     IF refl THEN Rd(a, getIndex(x, rows - 2)) ELSE 0)
         IN  IF Len(b) = Len(cur) THEN BoundaryX(b, x + 1, refl) ELSE cur

RECURSIVE BoundaryY(_, _, _)
BoundaryY(cur, y, refl) ==
    IF y >= rows THEN cur
    ELSE LET a == Wr(cur, getIndex(0, y),
                     IF refl THEN Rd(cur, getIndex(1, y)) ELSE 0)
             b == Wr(a, getIndex(cols - 1, y),
                     IF refl THEN Rd(a, getIndex(cols - 2, y)) ELSE 0)
         IN  IF Len(b) = Len(cur) THEN BoundaryY(b, y + 1, refl) ELSE cur

\* boundary conditions that always reflect
applyBoundaryReflecting(cur, refl) == BoundaryY(BoundaryX(cur, 0, TRUE), 0, TRUE)

\* boundary conditions that always absorb
applyBoundaryAbsorbing(cur, refl) == BoundaryY(BoundaryX(cur, 0, FALSE), 0, FALSE)

applyBoundaryConditions(cur, refl) == BoundaryY(BoundaryX(cur, 0, refl), 0, refl)

substep(cp, mask, c2n, c2d, dn, dd, refl) ==
    LET swept == SweepFrom(cp, 0, mask, c2n, c2d, dn, dd)
    IN  [cur |-> applyBoundaryConditions(swept.cur, refl), prev |-> swept.prev]

\* for (let s = 0; s < subSteps; s++) substep(subDt); n counts the sweeps run
RECURSIVE RunSubsteps(_, _, _, _, _, _, _, _, _)
RunSubsteps(cp, s, subSteps, mask, c2n, c2d, dn, dd, refl) ==
    IF s >= subSteps THEN [cur |-> cp.cur, prev |-> cp.prev, n |-> s]
    ELSE LET done == substep(cp, mask, c2n, c2d, dn, dd, refl)
         IN  IF Len(done.cur) = Len(cp.cur)
             THEN RunSubsteps(done, s + 1, subSteps, mask, c2n, c2d, dn, dd, refl)
             ELSE [cur |-> cp.cur, prev |-> cp.prev, n |-> s]

\* energyMap[i] = Math.max(energyMap[i] * energyDecay, Math.abs(current[i]))
EnergyOf(e, c) ==
    LET decayed == IF IsNaN(e) \/ IsInf(e) THEN e ELSE RoundDiv(e * EnergyDecay, 1000)
    IN  XMax(decayed, XAbs(c))

\* the indices the guard's loop inspects: 0, stride, 2*stride, ... below len
GuardStride(len) == IF len \div (2 ^ GuardShift) = 0 THEN 1 ELSE len \div (2 ^ GuardShift)
GuardSamples(len) == {i \in 0..(len - 1) : i % GuardStride(len) = 0}

\* TRUE when stabilityGuard resets the field
GuardTrips(cur) ==
    \/ \E i \in GuardSamples(Len(cur)) : ~IsFiniteJs(Rd(cur, i))
    \/ ~IsFiniteJs(Rd(cur, Len(cur) - 1))


\* Math.exp(-dist2 / (2 * sigma2)) in thousandths, sigma = r * 0.5, so the
\* exponent is -2*dist2/r^2: tabulated for r <= 2, where it is 0, -0.5, -1 or
\* -2; r = 0 makes it -0/0
GaussMilli(dist2, r) ==
    IF r = 0 THEN NaN
    ELSE CASE 8 * dist2 = 0 -> 1000
           [] 8 * dist2 = 2 * r * r -> 607
           [] 8 * dist2 = 4 * r * r -> 368
           [] 8 * dist2 = 8 * r * r -> 135

\* applyImpulse: every cell is visited at most once, so the loop is a map
ImpulseOf(cur, pixelX, pixelY, radius, amplitude) ==
    LET cx == FloorDiv(pixelX, cellSize)
        cy == FloorDiv(pixelY, cellSize)
        r == CeilDiv(radius, cellSize)
    IN  [i \in 1..Len(cur) |->
            LET gx == (i - 1) % cols
                gy == (i - 1) \div cols
                dx == gx - cx
                dy == gy - cy
                dist2 == dx * dx + dy * dy
            IN  IF gx < 1 \/ gx >= cols - 1 \/ gy < 1 \/ gy >= rows - 1 THEN cur[i]
                ELSE IF Abs(dx) > r \/ Abs(dy) > r \/ dist2 > r * r THEN cur[i]
                ELSE ToF32(XAdd(XScale(1000, cur[i]),
                                XScale(amplitude, GaussMilli(dist2, r))), 1000)]

\* ---------------------------------------------------------------- queries
\* v | 0 for a double v = n/d, d > 0, within the 32-bit range: the fraction
\* is dropped, towards zero
TruncDiv(n, d) == IF n >= 0 THEN n \div d ELSE -((-n) \div d)

\* a lookup that drops the fraction of the cell coordinate instead of flooring it
CellValueTrunc(arr, xn, yn, d) ==
    LET gx == TruncDiv(xn, d * cellSize)
        gy == TruncDiv(yn, d * cellSize)
    IN  IF gx < 0 \/ gx >= cols \/ gy < 0 \/ gy >= rows THEN 0
        ELSE Rd(arr, getIndex(gx, gy))

\* a lookup without the bounds check
CellValueUnchecked(arr, xn, yn, d) ==
    Rd(arr, getIndex(FloorDiv(xn, d * cellSize), FloorDiv(yn, d * cellSize)))

\* the body shared by getValue and getEnergyValue, for the pixel (xn/d, yn/d)
\* and the array arr
CellValue(arr, xn, yn, d) ==
    LET gx == FloorDiv(xn, d * cellSize)
        gy == FloorDiv(yn, d * cellSize)
    IN  IF gx < 0 \/ gx >= cols \/ gy < 0 \/ gy >= rows THEN 0
        ELSE Rd(arr, getIndex(gx, gy))

\* sample i (from 0) of sampleLine.  With numSamples = 1 invN is Infinity,
\* dx * 0 is NaN and NaN | 0 is 0, so the cell read is (0, 0).
SampleAt(cur, px1, py1, px2, py2, numSamples, i) ==
    LET gx == IF numSamples = 1 THEN 0
              ELSE TruncDiv(px1 * (numSamples - 1) + (px2 - px1) * i,
                            (numSamples - 1) * cellSize)
        gy == IF numSamples = 1 THEN 0
              ELSE TruncDiv(py1 * (numSamples - 1) + (py2 - py1) * i,
                            (numSamples - 1) * cellSize)
    IN  IF gx >= 0 /\ gx < cols /\ gy >= 0 /\ gy < rows THEN Rd(cur, gy * cols + gx)
        ELSE 0

\* a buffer that grows to twice the number of samples asked for
SampledBufferDoubling(buf, cur, px1, py1, px2, py2, numSamples) ==
    LET samples == IF Len(buf) < numSamples THEN Zeros(2 * numSamples) ELSE buf
    IN  [j \in 1..Len(samples) |->
            IF j <= numSamples THEN SampleAt(cur, px1, py1, px2, py2, numSamples, j - 1)
            ELSE samples[j]]

\* the sample buffer after sampleLine: grown when too short, its first
\* numSamples entries overwritten
SampledBuffer(buf, cur, px1, py1, px2, py2, numSamples) ==
    LET samples == IF Len(buf) < numSamples THEN Zeros(numSamples) ELSE buf
    IN  [j \in 1..Len(samples) |->
            IF j <= numSamples THEN SampleAt(cur, px1, py1, px2, py2, numSamples, j - 1)
            ELSE samples[j]]

\* ------------------------------------------------------- indices accessed
\* the array indices the interior loops of substep read or write
SweepIndices(mask) ==
    UNION {IF mask[y * cols + x + 1] # 0 THEN {y * cols + x}
           ELSE {y * cols + x, y * cols + x + 1, y * cols + x - 1,
                 y * cols + x + cols, y * cols + x - cols} :
           x \in 1..(cols - 2), y \in 1..(rows - 2)}

\* the indices applyBoundaryConditions writes and, when reflecting, reads
BoundaryIndices(refl) ==
    UNION ({{getIndex(x, 0), getIndex(x, rows - 1)}
              \cup (IF refl THEN {getIndex(x, 1), getIndex(x, rows - 2)} ELSE {}) :
            x \in 0..(cols - 1)}
           \cup
           {{getIndex(0, y), getIndex(cols - 1, y)}
              \cup (IF refl THEN {getIndex(1, y), getIndex(cols - 2, y)} ELSE {}) :
            y \in 0..(rows - 1)})

\* the indices stabilityGuard reads when no sample makes it return early:
\* the samples, then len - 1
GuardIndices(len) == GuardSamples(len) \cup {len - 1}

\* the indices one step accesses: the sweep, the boundary conditions, the
\* energy pass when enabled, the guard (the injection checks its bounds)
StepIndices(mask, refl, trail) ==
    SweepIndices(mask) \cup BoundaryIndices(refl) \cup GuardIndices(cols * rows)
    \cup (IF trail THEN 0..(cols * rows - 1) ELSE {})

\* the index getValue or getEnergyValue reads for the pixel (x, y), if any
QueryIndices(x, y) ==
    LET gx == FloorDiv(x, cellSize)
        gy == FloorDiv(y, cellSize)
    IN  IF gx < 0 \/ gx >= cols \/ gy < 0 \/ gy >= rows THEN {} ELSE {getIndex(gx, gy)}

\* ------------------------------------------------------------ input sets
\* constructor arguments <<width, height, cellSize>>: grids of 0x0, 1x3, 2x2
\* and 5x3 cells
Constructions == {<<0, 0, 4>>, <<2, 6, 2>>, <<8, 8, 4>>, <<10, 6, 2>>}
\* addSource arguments <<x, y, frequency, amplitude>>
SourceChoices == {<<2, 2, 1, 40>>, <<2, 2, 1, 100>>, <<0, 2, 1, 40>>, <<6, 2, 1, 40>>,
                  <<-100, -100, 1, 40>>}
Times == {0, 1}
WaveSpeeds == {0, 15}
Dampings == {1000}
NoSlits == << >>
OneSlit == <<[start |-> 30, end |-> 40]>>
\* addWall arguments: a full-height vertical wall, the same with a slit, a
\* wall along the top edge, a wall of length zero
WallChoices ==
    {<<4, 0, 4, height, NoSlits>>, <<4, 0, 4, height, OneSlit>>,
     <<0, 0, width, 0, NoSlits>>, <<4, 2, 4, 2, NoSlits>>}
\* applyImpulse arguments <<pixelX, pixelY, radius, amplitude>>
ImpulseChoices == {<<2, 2, 0, 16>>, <<2, 2, 2, 16>>, <<2, 2, 4, 16>>}

\* pixel coordinates of the point queries: outside on either side, on the
\* first and the last cell, inside
PixelXs == {-3, -1, 0, 3, 9, 11}
PixelYs == {-1, 0, 3, 5, 7}
\* sampleLine endpoints <<px1, py1, px2, py2>> and sample counts
LineChoices == {<<-1, 3, -1, 3>>, <<-1, 3, 9, 3>>, <<0, 0, 9, 5>>, <<3, 3, 3, 3>>,
                <<-3, -3, -1, -1>>, <<3, -1, 3, 7>>}
SampleCounts == {1, 2, 3}
\* the values a corrupting write stores
NonFinite == {NaN, PInf, NInf}

\* ------------------------------------------------------------ operations
\* new WaveSimulation(w, h, cs): the geometry, the arrays, the lists, the flags
Allocated(w, h, cs) ==
    /\ width = w
    /\ height = h
    /\ cellSize = cs
    /\ cols = CeilDiv(w, cs)
    /\ rows = CeilDiv(h, cs)
    /\ current = Zeros(CeilDiv(w, cs) * CeilDiv(h, cs))
    /\ previous = Zeros(CeilDiv(w, cs) * CeilDiv(h, cs))
    /\ velocity = Zeros(CeilDiv(w, cs) * CeilDiv(h, cs))
    /\ energyMap = Zeros(CeilDiv(w, cs) * CeilDiv(h, cs))
    /\ wallMask = Zeros(CeilDiv(w, cs) * CeilDiv(h, cs))
    /\ energyTrailEnabled = FALSE
    /\ wallMaskDirty = TRUE
    /\ sampleBuffer = Zeros(SampleBufferLen)
    /\ sources = << >>
    /\ walls = << >>
    /\ reflectiveBoundaries = FALSE

\* new WaveSimulation(w, h, cs): the parameter fields
DefaultParameters ==
    /\ waveSpeed = DefaultWaveSpeed
    /\ damping = DefaultDamping
    /\ dt = DefaultDt

Constructed(w, h, cs) == Allocated(w, h, cs) /\ DefaultParameters

NoCall == [op |-> "none"]
\* a result of sampleLine that the caller keeps: a view of n entries over a
\* buffer.  Every replacement of the sample buffer is longer than the buffer
\* it replaces, so the length of a buffer identifies it; no result is kept
\* before the first sampleLine call
NoView == [buf |-> 0, n |-> 0]

\* PerformanceMonitor as mounted: fps 60, not degraded, counters at 0
Mounted ==
    /\ frameCount = 0
    /\ elapsedNow = 0
    /\ fpsRef = [n |-> 60, d |-> 1]
    /\ degradedRef = FALSE
    /\ lowFrameCount = 0
    /\ highFrameCount = 0
    /\ perfState = [fps |-> [n |-> 60, d |-> 1], degraded |-> FALSE]
    /\ notified = << >>
    /\ lowTime = 0
    /\ highTime = 0

\* App, the refs before the first event: isDraggingRef = useRef(false),
\* dragSourceRef = useRef(-1), timeRef = useRef(0)
Rendered ==
    /\ isDraggingRef = FALSE
    /\ dragSourceRef = -1
    /\ timeRef = 0
    /\ sourceIds = << >>
    /\ nextId = 1
    /\ dragged = 0
    /\ events = 0

Observer0 ==
    /\ lastOp = "new"
    /\ taint = "clean"
    /\ sweeps = 0
    /\ subDt = [n |-> 0, d |-> 1]
    /\ call = NoCall
    /\ ret = << >>
    /\ held = NoView
    /\ Mounted
    /\ Rendered
    /\ steps = 0
    /\ edits = 0

Init ==
    /\ \E c \in Constructions : Constructed(c[1], c[2], c[3])
    /\ Observer0

\* the observer's part of an operation that is neither a step nor a query
EditCalled(op, c) ==
    /\ lastOp # "stepping"
    /\ edits < MaxEdits
    /\ edits' = edits + 1
    /\ lastOp' = op
    /\ call' = c
    /\ ret' = << >>
    /\ UNCHANGED <<taint, sweeps, subDt, held, steps, perfVars, uiVars>>

Edit(op) == EditCalled(op, NoCall)

addSource(x, y, frequency, amplitude) ==
    /\ Edit("addSource")
    /\ sources' = Append(sources, [x |-> x, y |-> y, frequency |-> frequency,
                                   amplitude |-> amplitude, phase |-> 0, active |-> TRUE])
    /\ UNCHANGED <<width, height, cellSize, cols, rows, sampleBuffer, current, previous, velocity,
                   energyMap, energyTrailEnabled, wallMask, wallMaskDirty, waveSpeed,
                   damping, dt, walls, reflectiveBoundaries>>

\* x, y and the orbit centre and radius are pixel numerators over cellSize
addOrbitalSource(centerX, centerY, radius, speed, frequency, amplitude, startAngle) ==
    /\ Edit("addOrbitalSource")
    /\ sources' = Append(sources,
                         [x |-> centerX + radius * CosQ(startAngle),
                          y |-> centerY + radius * SinQ(startAngle),
                          den |-> cellSize,
                          frequency |-> frequency, amplitude |-> amplitude,
                          phase |-> 0, active |-> TRUE,
                          orbitCenterX |-> centerX, orbitCenterY |-> centerY,
                          orbitRadius |-> radius, orbitSpeed |-> speed,
                          orbitAngle |-> startAngle])
    /\ UNCHANGED <<width, height, cellSize, cols, rows, sampleBuffer, current, previous, velocity,
                   energyMap, energyTrailEnabled, wallMask, wallMaskDirty, waveSpeed,
                   damping, dt, walls, reflectiveBoundaries>>

addWall(x1, y1, x2, y2, slits) ==
    /\ Edit("addWall")
    /\ walls' = Append(walls, [x1 |-> x1, y1 |-> y1, x2 |-> x2, y2 |-> y2, slits |-> slits])
    /\ wallMaskDirty' = TRUE
    /\ UNCHANGED <<width, height, cellSize, cols, rows, sampleBuffer, current, previous, velocity,
                   energyMap, energyTrailEnabled, wallMask, waveSpeed,
                   damping, dt, sources, reflectiveBoundaries>>

\* a clear that resets the field and the registries only
clearFieldOnly ==
    /\ Edit("clear")
    /\ current' = Zeros(Len(current))
    /\ previous' = Zeros(Len(previous))
    /\ velocity' = Zeros(Len(velocity))
    /\ sources' = << >>
    /\ walls' = << >>
    /\ wallMaskDirty' = TRUE
    /\ UNCHANGED <<width, height, cellSize, cols, rows, sampleBuffer, energyMap, wallMask,
                   energyTrailEnabled, waveSpeed, damping, dt, reflectiveBoundaries>>

clear ==
    /\ Edit("clear")
    /\ current' = Zeros(Len(current))
    /\ previous' = Zeros(Len(previous))
    /\ velocity' = Zeros(Len(velocity))
    /\ energyMap' = Zeros(Len(energyMap))
    /\ wallMask' = Zeros(Len(wallMask))
    /\ sources' = << >>
    /\ walls' = << >>
    /\ wallMaskDirty' = TRUE
    /\ UNCHANGED <<width, height, cellSize, cols, rows, sampleBuffer, energyTrailEnabled, waveSpeed,
                   damping, dt, reflectiveBoundaries>>

rebuildWallMask ==
    /\ Edit("rebuildWallMask")
    /\ wallMask' = RebuiltMask(wallMask, wallMaskDirty, walls)
    /\ wallMaskDirty' = FALSE
    /\ UNCHANGED <<width, height, cellSize, cols, rows, sampleBuffer, current, previous, velocity,
                   energyMap, energyTrailEnabled, waveSpeed,
                   damping, dt, sources, walls, reflectiveBoundaries>>

\* the ring and everything outside the disc are skipped, so the loop writes
\* a cell at most once
applyImpulseWholeDisc(pixelX, pixelY, radius, amplitude) ==
    /\ EditCalled("applyImpulse", [op |-> "applyImpulse", pixelX |-> pixelX, pixelY |-> pixelY,
                                   radius |-> radius, amplitude |-> amplitude])
    /\ current' = [i \in 1..Len(current) |->
                       IF (((i - 1) % cols) - FloorDiv(pixelX, cellSize)) ^ 2
                          + (((i - 1) \div cols) - FloorDiv(pixelY, cellSize)) ^ 2
                          > CeilDiv(radius, cellSize) ^ 2
                       THEN current[i]
                       ELSE ToF32(XAdd(XScale(1000, current[i]), XScale(amplitude, 1000)), 1000)]
    /\ UNCHANGED <<width, height, cellSize, cols, rows, sampleBuffer, previous, velocity,
                   energyMap, energyTrailEnabled, wallMask, wallMaskDirty, waveSpeed,
                   damping, dt, sources, walls, reflectiveBoundaries>>

applyImpulse(pixelX, pixelY, radius, amplitude) ==
    /\ EditCalled("applyImpulse", [op |-> "applyImpulse", pixelX |-> pixelX, pixelY |-> pixelY,
                                   radius |-> radius, amplitude |-> amplitude])
    /\ current' = ImpulseOf(current, pixelX, pixelY, radius, amplitude)
    /\ UNCHANGED <<width, height, cellSize, cols, rows, sampleBuffer, previous, velocity,
                   energyMap, energyTrailEnabled, wallMask, wallMaskDirty, waveSpeed,
                   damping, dt, sources, walls, reflectiveBoundaries>>

\* sim.sources[k].active = b on the public source list
setSourceActive(k, b) ==
    /\ k <= Len(sources)
    /\ sources[k].active # b
    /\ Edit("set")
    /\ sources' = [sources EXCEPT ![k].active = b]
    /\ UNCHANGED <<width, height, cellSize, cols, rows, sampleBuffer, current, previous, velocity,
                   energyMap, energyTrailEnabled, wallMask, wallMaskDirty, waveSpeed,
                   damping, dt, walls, reflectiveBoundaries>>

\* the assignments to the public parameter fields
setWaveSpeed(v) ==
    /\ v # waveSpeed
    /\ Edit("set")
    /\ waveSpeed' = v
    /\ UNCHANGED <<width, height, cellSize, cols, rows, sampleBuffer, current, previous, velocity,
                   energyMap, energyTrailEnabled, wallMask, wallMaskDirty,
                   damping, dt, sources, walls, reflectiveBoundaries>>

setDamping(v) ==
    /\ v # damping
    /\ Edit("set")
    /\ damping' = v
    /\ UNCHANGED <<width, height, cellSize, cols, rows, sampleBuffer, current, previous, velocity,
                   energyMap, energyTrailEnabled, wallMask, wallMaskDirty,
                   waveSpeed, dt, sources, walls, reflectiveBoundaries>>

setReflectiveBoundaries(b) ==
    /\ b # reflectiveBoundaries
    /\ Edit("set")
    /\ reflectiveBoundaries' = b
    /\ UNCHANGED <<width, height, cellSize, cols, rows, sampleBuffer, current, previous, velocity,
                   energyMap, energyTrailEnabled, wallMask, wallMaskDirty,
                   waveSpeed, damping, dt, sources, walls>>

setEnergyTrailEnabled(b) ==
    /\ b # energyTrailEnabled
    /\ Edit("set")
    /\ energyTrailEnabled' = b
    /\ UNCHANGED <<width, height, cellSize, cols, rows, sampleBuffer, current, previous, velocity,
                   energyMap, wallMask, wallMaskDirty,
                   waveSpeed, damping, dt, sources, walls, reflectiveBoundaries>>

\* the observer's part of a query
Query(op, c) ==
    /\ lastOp # "stepping"
    /\ edits < MaxEdits
    /\ edits' = edits + 1
    /\ lastOp' = op
    /\ call' = c
    /\ UNCHANGED <<taint, sweeps, subDt, steps, perfVars, uiVars>>

getValue(x, y) ==
    /\ Query("getValue", [op |-> "getValue", x |-> x, y |-> y])
    /\ ret' = <<CellValue(current, x, y, 1)>>
    /\ UNCHANGED <<simVars, held>>

getEnergyValue(x, y) ==
    /\ Query("getEnergyValue", [op |-> "getEnergyValue", x |-> x, y |-> y])
    /\ ret' = <<CellValue(energyMap, x, y, 1)>>
    /\ UNCHANGED <<simVars, held>>

\* the value returned is the view samples.subarray(0, numSamples), recorded
\* with the contents it has at the return
sampleLine(px1, py1, px2, py2, numSamples) ==
    /\ Query("sampleLine", [op |-> "sampleLine", x1 |-> px1, y1 |-> py1,
                            x2 |-> px2, y2 |-> py2, n |-> numSamples])
    /\ sampleBuffer' = SampledBuffer(sampleBuffer, current, px1, py1, px2, py2, numSamples)
    /\ ret' = SubSeq(sampleBuffer', 1, numSamples)
    /\ \E keep \in BOOLEAN :
          held' = IF keep THEN [buf |-> Len(sampleBuffer'), n |-> numSamples] ELSE held
    /\ UNCHANGED <<width, height, cellSize, cols, rows, current, previous, velocity,
                   energyMap, energyTrailEnabled, wallMask, wallMaskDirty, waveSpeed,
                   damping, dt, sources, walls, reflectiveBoundaries>>

\* a caller's write of a non-finite value into one cell of the public array
\* current, the field being finite before it
corrupt(i, v) ==
    /\ lastOp # "stepping"
    /\ taint = "clean"
    /\ i >= 0 /\ i < Len(current)
    /\ \A j \in 1..Len(current) : IsFiniteJs(current[j])
    /\ current' = Wr(current, i, v)
    /\ taint' = "corrupt"
    /\ lastOp' = "corrupt"
    /\ call' = NoCall
    /\ ret' = << >>
    /\ UNCHANGED <<width, height, cellSize, cols, rows, sampleBuffer, previous, velocity,
                   energyMap, energyTrailEnabled, wallMask, wallMaskDirty, waveSpeed,
                   damping, dt, sources, walls, reflectiveBoundaries,
                   sweeps, subDt, held, steps, edits, perfVars, uiVars>>

\* the field after the injection and the sub-steps of step(time), with the
\* number of sweeps run
\* the sub-step loop of a step on the field after injection
SweepsOf(injected) ==
    LET subSteps == SubStepsOf(waveSpeed, dt)
        g == GCD(waveSpeed * waveSpeed * dt * dt, 10000 * subSteps * subSteps)
        c2n == (waveSpeed * waveSpeed * dt * dt) \div g
        c2d == (10000 * subSteps * subSteps) \div g
        dg == GCD(Abs(damping), 1000)
        mask == RebuiltMask(wallMask, wallMaskDirty, walls)
    IN  RunSubsteps([cur |-> injected, prev |-> previous], 0, subSteps, mask,
                    c2n, c2d, damping \div dg, 1000 \div dg, reflectiveBoundaries)

StepRun(time) ==
    SweepsOf(InjectFrom(current, [k \in 1..Len(sources) |-> OrbitalUpdate(sources[k])],
                        1, time))

\* a guard that resets current only
stabilityGuardFieldOnly(cur, prev, vel) ==
    IF GuardTrips(cur) THEN [cur |-> Zeros(Len(cur)), prev |-> prev, vel |-> vel]
    ELSE [cur |-> cur, prev |-> prev, vel |-> vel]

\* stabilityGuard on the three arrays it may fill
stabilityGuard(cur, prev, vel) ==
    IF GuardTrips(cur)
    THEN [cur |-> Zeros(Len(cur)), prev |-> Zeros(Len(prev)), vel |-> Zeros(Len(vel))]
    ELSE [cur |-> cur, prev |-> prev, vel |-> vel]

\* for (let s = 0; s < subSteps; s++): the loop ends when the counter can
\* reach subSteps
LoopEnds(subSteps) == subSteps <= ExactCount

\* a step whose sub-step loop does not end never returns: no later call is
\* made and no result of the call is seen
\* one call of step, whoever makes it
stepAt(time) ==
    /\ lastOp # "stepping"
    /\ steps < MaxSteps
    /\ steps' = steps + 1
    /\ call' = [op |-> "step", time |-> time]
    /\ ret' = << >>
    /\ UNCHANGED <<held, perfVars, dragVars>>
    /\ IF ~LoopEnds(SubStepsOf(waveSpeed, dt))
       THEN /\ lastOp' = "stepping"
            /\ UNCHANGED <<simVars, taint, sweeps, subDt, edits>>
       ELSE LET run == StepRun(time)
                guarded == stabilityGuard(run.cur, run.prev, velocity)
            IN  /\ lastOp' = "step"
                /\ taint' = IF taint = "corrupt" THEN "stepped" ELSE "clean"
                /\ sweeps' = run.n
                /\ subDt' = [n |-> dt, d |-> 10 * SubStepsOf(waveSpeed, dt)]
                /\ wallMask' = RebuiltMask(wallMask, wallMaskDirty, walls)
                /\ wallMaskDirty' = FALSE
                /\ energyMap' = IF energyTrailEnabled
                                THEN [i \in 1..Len(energyMap) |->
                                         EnergyOf(energyMap[i], run.cur[i])]
                                ELSE energyMap
                /\ current' = guarded.cur
                /\ previous' = guarded.prev
                /\ velocity' = guarded.vel
                /\ sources' = SourcesAfterStep(sources)
                /\ UNCHANGED <<width, height, cellSize, cols, rows, sampleBuffer,
                               energyTrailEnabled, waveSpeed, damping, dt, walls,
                               reflectiveBoundaries, edits>>

step(time) == stepAt(time) /\ UNCHANGED timeRef

Next ==
    \/ \E c \in SourceChoices : addSource(c[1], c[2], c[3], c[4])
    \/ \E w \in WallChoices : addWall(w[1], w[2], w[3], w[4], w[5])
    \/ clear
    \/ rebuildWallMask
    \/ \E c \in ImpulseChoices : applyImpulse(c[1], c[2], c[3], c[4])
    \/ \E v \in WaveSpeeds : setWaveSpeed(v)
    \/ \E v \in Dampings : setDamping(v)
    \/ \E b \in BOOLEAN : setReflectiveBoundaries(b)
    \/ \E b \in BOOLEAN : setEnergyTrailEnabled(b)
    \/ \E t \in Times : step(t)

Spec == Init /\ [][Next]_vars


\* ------------------------------------------------- the CFL specification
\* A 3x3 grid whose waveSpeed and dt were assigned any value of the ranges
\* below, damping 1.0; steps follow.
MaxWaveSpeed == 100
DtChoices == {3, 10, 12}

InitCfl ==
    /\ Allocated(6, 6, 2)
    /\ waveSpeed \in 0..MaxWaveSpeed
    /\ dt \in DtChoices
    /\ damping = 1000
    /\ Observer0

NextCfl == \E t \in Times : step(t)

SpecCfl == InitCfl /\ [][NextCfl]_vars

\* ------------------------------------------- the recovery specification
\* Grids of 3x3 and 3x16 cells with the default parameters; one cell is
\* corrupted, the boundary mode is chosen, steps follow.
GuardConstructions == {<<6, 6, 2>>, <<6, 32, 2>>}

InitGuard ==
    /\ \E c \in GuardConstructions : Constructed(c[1], c[2], c[3])
    /\ Observer0

NextGuard ==
    \/ \E i \in 0..(Len(current) - 1), v \in NonFinite : corrupt(i, v)
    \/ \E b \in BOOLEAN : setReflectiveBoundaries(b)
    \/ \E t \in Times : step(t)

SpecGuard == InitGuard /\ [][NextGuard]_vars

\* ---------------------------------------------- the query specification
\* A grid of 5x3 cells of size 2; impulses, the two flags and steps build the
\* field, the three queries read it.
InitQuery ==
    /\ Constructed(10, 6, 2)
    /\ Observer0

NextQuery ==
    \/ \E c \in ImpulseChoices : applyImpulse(c[1], c[2], c[3], c[4])
    \/ \E b \in BOOLEAN : setReflectiveBoundaries(b)
    \/ \E b \in BOOLEAN : setEnergyTrailEnabled(b)
    \/ \E t \in Times : step(t)
    \/ \E x \in PixelXs, y \in PixelYs : getValue(x, y)
    \/ \E x \in PixelXs, y \in PixelYs : getEnergyValue(x, y)
    \/ \E l \in LineChoices, n \in SampleCounts : sampleLine(l[1], l[2], l[3], l[4], n)

SpecQuery == InitQuery /\ [][NextQuery]_vars

\* ----------------------------------------- the degenerate specification
\* Grids without cells (0x0, 0x3, 5x0) and the 2x2 grid, under every public
\* operation.
DegenerateConstructions == {<<0, 0, 4>>, <<0, 6, 2>>, <<10, 0, 2>>, <<8, 8, 4>>}

InitDegenerate ==
    /\ \E c \in DegenerateConstructions : Constructed(c[1], c[2], c[3])
    /\ Observer0

NextDegenerate ==
    \/ \E c \in SourceChoices : addSource(c[1], c[2], c[3], c[4])
    \/ \E w \in WallChoices : addWall(w[1], w[2], w[3], w[4], w[5])
    \/ clear
    \/ \E c \in ImpulseChoices : applyImpulse(c[1], c[2], c[3], c[4])
    \/ \E b \in BOOLEAN : setReflectiveBoundaries(b)
    \/ \E t \in Times : step(t)
    \/ \E x \in PixelXs, y \in PixelYs : getValue(x, y)
    \/ \E x \in PixelXs, y \in PixelYs : getEnergyValue(x, y)
    \/ \E l \in LineChoices, n \in SampleCounts : sampleLine(l[1], l[2], l[3], l[4], n)

SpecDegenerate == InitDegenerate /\ [][NextDegenerate]_vars

\* ---------------------------------------- the termination specification
\* Grids of 0, 9 and 48 cells; the wave speed is assigned 0, 1.5 or a value
\* whose sub-step count is beyond ExactCount; steps follow.
TerminationConstructions == {<<0, 0, 4>>, <<6, 6, 2>>, <<6, 32, 2>>}
TerminationSpeeds == {0, 15, 200}

InitTermination ==
    /\ \E c \in TerminationConstructions : Constructed(c[1], c[2], c[3])
    /\ Observer0

NextTermination ==
    \/ \E v \in TerminationSpeeds : setWaveSpeed(v)
    \/ \E b \in BOOLEAN : setEnergyTrailEnabled(b)
    \/ \E c \in ImpulseChoices : applyImpulse(c[1], c[2], c[3], c[4])
    \/ \E t \in Times : step(t)

SpecTermination == InitTermination /\ [][NextTermination]_vars

\* impulses at the centre of grids with odd cols and rows (3x3, 5x3, 5x5),
\* without sources and walls
SymmetryConstructions == {<<6, 6, 2>>, <<10, 6, 2>>, <<10, 10, 2>>}
\* <<radius, amplitude>> of the centre impulses
SymmetryImpulses == {<<2, 16>>, <<4, 16>>, <<2, -16>>}

InitSymmetry ==
    /\ \E c \in SymmetryConstructions : Constructed(c[1], c[2], c[3])
    /\ Observer0

NextSymmetry ==
    \/ \E c \in SymmetryImpulses : applyImpulse(width \div 2, height \div 2, c[1], c[2])
    \/ \E b \in BOOLEAN : setReflectiveBoundaries(b)
    \/ \E t \in Times : step(t)

SpecSymmetry == InitSymmetry /\ [][NextSymmetry]_vars

\* orbiting sources on the 5x3 grid: addOrbitalSource arguments <<centerX,
\* centerY, radius, speed, startAngle>> with the centre inside the grid, on
\* its left edge (x = 0) and on its top edge (y = 0)
OrbitChoices ==
    {<<4, 2, 2, 1, 0>>, <<4, 2, 4, 2, 1>>, <<0, 2, 2, 1, 0>>, <<0, 2, 4, 1, 1>>,
     <<4, 0, 2, 1, 0>>}
\* the steps are taken at time 0
OrbitTimes == {0}

InitOrbit ==
    /\ Constructed(10, 6, 2)
    /\ Observer0

NextOrbit ==
    \/ \E c \in OrbitChoices : addOrbitalSource(c[1], c[2], c[3], c[4], 1, 40, c[5])
    \/ \E c \in SourceChoices : addSource(c[1], c[2], c[3], c[4])
    \/ \E t \in OrbitTimes : step(t)

SpecOrbit == InitOrbit /\ [][NextOrbit]_vars

\* sources inside and outside the 5x3 grid, switched on and off, under one
\* and under three sub-steps, in either boundary mode, with and without walls
MaxSources == 3

InitInject ==
    /\ Constructed(10, 6, 2)
    /\ Observer0

NextInject ==
    \/ \E c \in SourceChoices : addSource(c[1], c[2], c[3], c[4])
    \/ \E k \in 1..MaxSources, b \in BOOLEAN : setSourceActive(k, b)
    \/ \E v \in WaveSpeeds : setWaveSpeed(v)
    \/ \E b \in BOOLEAN : setReflectiveBoundaries(b)
    \/ \E w \in WallChoices : addWall(w[1], w[2], w[3], w[4], w[5])
    \/ \E t \in Times : step(t)

SpecInject == InitInject /\ [][NextInject]_vars

\* ------------------------------------------------- the performance monitor
\* PerformanceMonitor.tsx.  Times are in milliseconds, the two counters in
\* quarters of a millisecond (the middle zone takes off elapsed * 0.5), an
\* FPS value is the fraction n/d.
DegradeFps == 30
RecoverFps == 45
\* DEGRADE_WINDOW * 16.67 and RECOVER_WINDOW * 16.67, in hundredths of a ms
DegradeHundredths == 180 * 1667
RecoverHundredths == 300 * 1667
\* if (elapsed >= 500)
MeasureWindow == 500

\* the counters after a window that leaves the other counter alone
TrackedNoReset(low, high, frames, elapsed) ==
    IF frames * 1000 < DegradeFps * elapsed
    THEN [low |-> low + 4 * elapsed, high |-> high]
    ELSE IF frames * 1000 > RecoverFps * elapsed
    THEN [low |-> low, high |-> high + 4 * elapsed]
    ELSE [low |-> Max(0, low - 2 * elapsed), high |-> Max(0, high - 2 * elapsed)]

\* "Track sustained drops/recoveries": fps = frames / elapsed * 1000
Tracked(low, high, frames, elapsed) ==
    IF frames * 1000 < DegradeFps * elapsed
    THEN [low |-> low + 4 * elapsed, high |-> 0]
    ELSE IF frames * 1000 > RecoverFps * elapsed
    THEN [low |-> 0, high |-> high + 4 * elapsed]
    ELSE [low |-> Max(0, low - 2 * elapsed), high |-> Max(0, high - 2 * elapsed)]

\* the frame intervals of the animation frames: 50, 40 and 20 frames per
\* second, and a stall
FrameIntervals == {20, 25, 50, 1500}
\* a window below DEGRADE_FPS or above RECOVER_FPS begins only while the
\* window time of its kind is at most this many ms
LowCap == 3500
HighCap == 5500
MaxNotified == 3

\* tick(), delta ms after the previous animation frame.  The frames of one
\* measurement window come at one pace.
tick(delta) ==
    /\ lastOp # "stepping"
    /\ Len(notified) < MaxNotified
    /\ frameCount = 0 \/ elapsedNow = delta * frameCount
    /\ (delta >= 50 /\ frameCount = 0) => lowTime <= LowCap
    /\ (delta = 20 /\ frameCount = 0) => highTime <= HighCap
    /\ LET frames == frameCount + 1
           elapsed == elapsedNow + delta
           fps == [n |-> (frames * 1000) \div GCD(frames * 1000, elapsed),
                   d |-> elapsed \div GCD(frames * 1000, elapsed)]
           t == Tracked(lowFrameCount, highFrameCount, frames, elapsed)
           degrade == ~degradedRef /\ 25 * t.low > DegradeHundredths
           recover == ~degrade /\ degradedRef /\ 25 * t.high > RecoverHundredths
       IN  IF elapsed < MeasureWindow
           THEN /\ frameCount' = frames
                /\ elapsedNow' = elapsed
                /\ UNCHANGED <<fpsRef, degradedRef, lowFrameCount, highFrameCount, perfState,
                               notified, lowTime, highTime>>
           ELSE /\ frameCount' = 0
                /\ elapsedNow' = 0
                /\ fpsRef' = fps
                /\ lowFrameCount' = t.low
                /\ highFrameCount' = t.high
                /\ degradedRef' = IF degrade THEN TRUE ELSE IF recover THEN FALSE
                                   ELSE degradedRef
                /\ notified' = IF degrade THEN Append(notified, TRUE)
                                ELSE IF recover THEN Append(notified, FALSE)
                                ELSE notified
                /\ perfState' = [fps |-> fps, degraded |-> degradedRef']
                /\ lowTime' = IF recover THEN 0
                               ELSE IF frames * 1000 < DegradeFps * elapsed
                               THEN lowTime + elapsed ELSE lowTime
                /\ highTime' = IF frames * 1000 < DegradeFps * elapsed THEN 0
                                ELSE IF frames * 1000 > RecoverFps * elapsed
                                THEN highTime + elapsed ELSE highTime
    /\ UNCHANGED <<simVars, lastOp, taint, sweeps, subDt, call, ret, held, steps, edits, uiVars>>

InitPerf ==
    /\ Constructed(0, 0, 4)
    /\ Observer0

NextPerf == \E delta \in FrameIntervals : tick(delta)

SpecPerf == InitPerf /\ [][NextPerf]_vars

\* ------------------------------------------------------------------ claims
AllCells == 1..Len(current)

\* C1: after every completed step every cell of current is finite and lies
\* in [-50, 50], whatever operations preceded it, on every grid size and in
\* either boundary mode.
C1_AmplitudeBound ==
    lastOp = "step" =>
        \A i \in AllCells :
            IsFiniteJs(current[i]) /\ current[i] >= -ClampMax /\ current[i] <= ClampMax

\* C3: a step runs subSteps = max(1, ceil(waveSpeed*dt/0.5)) >= 1 sub-steps of
\* size subDt = dt/subSteps, so that waveSpeed*subDt <= 0.5 and
\* subSteps*subDt = dt.  (k = ceil(x) is stated as k-1 < x <= k.)
C3_CflSubStepping ==
    lastOp = "step" =>
        /\ sweeps >= 1
        /\ waveSpeed * dt <= 10 * CflLimitTenths * sweeps
        /\ sweeps > 1 => waveSpeed * dt > 10 * CflLimitTenths * (sweeps - 1)
        /\ subDt.n * 10 * sweeps = dt * subDt.d
        /\ waveSpeed * subDt.n <= CflLimitTenths * subDt.d

\* C3's case: a step that needed more than one sub-step
C3_Witness == lastOp = "step" /\ sweeps = 3 /\ waveSpeed = 15 /\ dt = 10

\* C4 as stated: with dt = 1 and waveSpeed in [0, 10] the number of sweeps of
\* one step equals ceil(waveSpeed*dt/0.5).
C4_SweepsAreCeil ==
    (lastOp = "step" /\ dt = 10) =>
        /\ waveSpeed * dt <= 10 * CflLimitTenths * sweeps
        /\ waveSpeed * dt > 10 * CflLimitTenths * (sweeps - 1)

\* C4 amended: with dt = 1 the number of sweeps equals ceil(waveSpeed*dt/0.5)
\* for waveSpeed in (0, 10], and is 1 for waveSpeed = 0.
C4_SweepsAreCeilOrOne ==
    (lastOp = "step" /\ dt = 10) =>
        IF waveSpeed = 0 THEN sweeps = 1
        ELSE /\ waveSpeed * dt <= 10 * CflLimitTenths * sweeps
             /\ waveSpeed * dt > 10 * CflLimitTenths * (sweeps - 1)

\* C4's cases: the spec's examples 0.5 -> 1, 1.5 -> 3, 5.0 -> 10
C4_Witness == lastOp = "step" /\ dt = 10 /\ waveSpeed = 50 /\ sweeps = 10

\* C2 as stated: once a non-finite value was written into one cell of
\* current and one step has returned, every cell of current is finite, on
\* every grid, in either boundary mode, for every cell.
C2_Recovery == taint = "stepped" => \A i \in AllCells : IsFiniteJs(current[i])

\* the cells of the outermost ring
EdgeCells ==
    {i \in AllCells : \/ (i - 1) % cols = 0 \/ (i - 1) % cols = cols - 1
                      \/ (i - 1) \div cols = 0 \/ (i - 1) \div cols = rows - 1}
EdgesZero == \A i \in EdgeCells : current[i] = 0

\* C5: a step taken with reflectiveBoundaries = false leaves every cell of
\* the first and last row and column of current at 0, wherever the sources
\* are, and an applyImpulse that finds them 0 leaves them 0.
C5_AbsorbingBoundary ==
    [][/\ (lastOp' = "step" /\ ~reflectiveBoundaries') => EdgesZero'
       /\ (lastOp' = "applyImpulse" /\ EdgesZero) => EdgesZero']_vars

\* C5's case: an impulse after an absorbing step with a source on an edge
\* cell; the interior moves, the edges are 0
C5_Witness ==
    /\ lastOp = "applyImpulse" /\ steps >= 1 /\ ~reflectiveBoundaries /\ cols = 5
    /\ \E j \in 1..Len(sources) : JsRound(sources[j].x, cellSize) = 0
    /\ \E i \in AllCells \ EdgeCells : current[i] # 0
    /\ EdgesZero

\* C6: whenever the mask is not marked dirty it holds 1 exactly on the cells
\* blocked by the current wall list; a step and rebuildWallMask leave it
\* clean, so the mask a step sweeps with is that of the walls added before
\* it, and the step zeroes the interior cells it flags; clear() leaves the
\* mask all 0.
C6_LazyMask ==
    /\ ~wallMaskDirty => wallMask = MaskOf(walls)
    /\ lastOp \in {"step", "rebuildWallMask"} => ~wallMaskDirty
    /\ lastOp = "clear" => wallMask = Zeros(cols * rows)
    /\ lastOp = "step" =>
           \A i \in AllCells \ EdgeCells : wallMask[i] = 1 => current[i] = 0

\* C6's case: a step after which the mask flags some cells and not others
C6_Witness ==
    /\ lastOp = "step" /\ Len(walls) >= 1
    /\ \E i \in AllCells : wallMask[i] = 1
    /\ \E i \in AllCells : wallMask[i] = 0

ColumnBlocked(mask, k) == \A y \in 0..(rows - 1) : mask[getIndex(k, y) + 1] = 1
SourceColumn(s) == JsRound(s.x, cellSize)
\* column k holds 0 in current, and the cells beyond it (to the right for
\* side = 1, to the left for side = -1) hold 0 in current and previous
Quiet(cur, prev, k, side) ==
    \A i \in 1..Len(cur) :
        /\ ((i - 1) % cols = k) => cur[i] = 0
        /\ ((((i - 1) % cols) - k) * side > 0) => (cur[i] = 0 /\ prev[i] = 0)
\* the first wall is vertical, spans the height and has no slits
FullWallAt(ws, k) ==
    /\ Len(ws) >= 1
    /\ ws[1].x1 = k * cellSize /\ ws[1].x2 = k * cellSize
    /\ ws[1].y1 = 0 /\ ws[1].y2 = height
    /\ Len(ws[1].slits) = 0

C8_MaskedCellsZero ==
    lastOp = "step" =>
        \A i \in AllCells : wallMask[i] = 1 => (current[i] = 0 /\ previous[i] = 0)

\* C9 as stated: sampleLine returns numSamples values and sample i equals
\* getValue at the point interpolated between the endpoints (the start point
\* when numSamples = 1), so a sample whose point is outside the grid is 0.
C9_SampleLineContract ==
    call.op = "sampleLine" =>
        /\ Len(ret) = call.n
        /\ \A i \in 1..call.n :
              ret[i] = IF call.n = 1 THEN CellValue(current, call.x1, call.y1, 1)
                       ELSE CellValue(current,
                                      call.x1 * (call.n - 1) + (call.x2 - call.x1) * (i - 1),
                                      call.y1 * (call.n - 1) + (call.y2 - call.y1) * (i - 1),
                                      call.n - 1)

\* C10: getValue and getEnergyValue change no field, and return the entry of
\* current, respectively energyMap, at the cell (gx, gy) with
\* gx*cellSize <= px < (gx+1)*cellSize and gy*cellSize <= py < (gy+1)*cellSize
\* when that cell is in [0, cols) x [0, rows), and 0 otherwise.
C10_PointQueries ==
    [][(call'.op \in {"getValue", "getEnergyValue"}) =>
          /\ UNCHANGED simVars
          /\ \E gx \in (-Abs(call'.x) - 1)..(Abs(call'.x) + 1),
                gy \in (-Abs(call'.y) - 1)..(Abs(call'.y) + 1) :
                /\ gx * cellSize <= call'.x /\ call'.x < (gx + 1) * cellSize
                /\ gy * cellSize <= call'.y /\ call'.y < (gy + 1) * cellSize
                /\ ret' = <<IF gx >= 0 /\ gx < cols /\ gy >= 0 /\ gy < rows
                            THEN (IF call'.op = "getValue" THEN current
                                  ELSE energyMap)[gy * cols + gx + 1]
                            ELSE 0>>]_vars

\* C10's case: getEnergyValue reads a cell the energy trail has marked
C10_Witness ==
    /\ call.op = "getEnergyValue" /\ call.x = 3 /\ call.y = 3
    /\ ret = <<energyMap[getIndex(1, 1) + 1]>>
    /\ ret[1] # 0 /\ ret[1] # NaN

\* C11: clear(), in any state, leaves current, previous, velocity, energyMap
\* and wallMask all zero, the source and wall lists empty and the mask marked
\* dirty, and leaves waveSpeed, damping, dt, reflectiveBoundaries,
\* energyTrailEnabled and the grid dimensions unchanged.
C11_ClearEffect ==
    [][lastOp' = "clear" =>
          /\ current' = Zeros(cols * rows) /\ previous' = Zeros(cols * rows)
          /\ velocity' = Zeros(cols * rows) /\ energyMap' = Zeros(cols * rows)
          /\ wallMask' = Zeros(cols * rows)
          /\ sources' = << >> /\ walls' = << >> /\ wallMaskDirty'
          /\ UNCHANGED <<waveSpeed, damping, dt, reflectiveBoundaries, energyTrailEnabled,
                         width, height, cellSize, cols, rows>>]_vars

\* C11's case: a clear after a step with the energy trail on and the wave
\* speed changed
C11_Witness ==
    /\ lastOp = "clear" /\ steps >= 1 /\ cols = 5
    /\ energyTrailEnabled /\ waveSpeed # DefaultWaveSpeed

\* C12 as stated: a step with energyTrailEnabled = false leaves energyMap
\* unchanged; a step with it true sets every cell to
\* max(old * energyDecay, |current| after the sub-steps), and afterwards
\* energyMap[i] >= |current[i]| for every cell.
C12_EnergyUpdate ==
    [][lastOp' = "step" =>
          IF ~energyTrailEnabled THEN energyMap' = energyMap
          ELSE /\ \E t \in Times :
                    LET run == StepRun(t)
                    IN  energyMap' = [i \in 1..Len(energyMap) |->
                                         EnergyOf(energyMap[i], run.cur[i])]
               /\ \A i \in 1..Len(energyMap) :
                    XGe(energyMap'[i], XAbs(current'[i]))]_vars

\* C13 as stated: with energyTrailEnabled = true, after every step, the
\* steps in which the guard reset the field included, every energyMap cell is
\* finite, >= 0 and below 100.
C13_EnergyFinite ==
    (lastOp = "step" /\ energyTrailEnabled) =>
        \A i \in 1..Len(energyMap) :
            IsFiniteJs(energyMap[i]) /\ energyMap[i] >= 0 /\ energyMap[i] < 2 * ClampMax

\* C14: when the guard finds a non-finite value among its samples of the
\* field the sub-steps left, the step ends with current, previous and
\* velocity all zero; when every cell of that field is finite the step ends
\* with that field, its previous and the velocity it began with; either way
\* the source list, the wall list, the parameters and the rebuilt mask are
\* as they were before the guard.
C14_GuardEffect ==
    [][lastOp' = "step" =>
          /\ \E t \in Times :
                LET run == StepRun(t)
                IN  /\ GuardTrips(run.cur) =>
                          /\ current' = Zeros(cols * rows)
                          /\ previous' = Zeros(cols * rows)
                          /\ velocity' = Zeros(cols * rows)
                    /\ (\A i \in 1..Len(run.cur) : IsFiniteJs(run.cur[i])) =>
                          /\ current' = run.cur
                          /\ previous' = run.prev
                          /\ velocity' = velocity
          /\ wallMask' = RebuiltMask(wallMask, wallMaskDirty, walls)
          /\ UNCHANGED <<sources, walls, waveSpeed, damping, dt, reflectiveBoundaries,
                         energyTrailEnabled>>]_vars

\* C14's case: a step whose guard reset a non-finite field, which the energy
\* trail recorded, with a source registered
C14_Witness ==
    /\ lastOp = "step" /\ cols = 5 /\ energyTrailEnabled
    /\ \E i \in AllCells : energyMap[i] = NaN
    /\ \A i \in AllCells : current[i] = 0 /\ previous[i] = 0
    /\ Len(sources) >= 1

\* C15: on a grid with cols = 0 or rows = 0 every operation leaves the
\* per-cell arrays empty, getValue and getEnergyValue return 0 and sampleLine
\* returns zeros; and on every grid, whatever walls (a zero-length one
\* included) and sources (an out-of-bounds one included) are registered, a
\* step returns and leaves arrays of cols*rows cells.
C15_DegenerateGrids ==
    /\ (cols = 0 \/ rows = 0) =>
          /\ current = << >> /\ previous = << >> /\ velocity = << >>
          /\ energyMap = << >> /\ wallMask = << >>
          /\ call.op \in {"getValue", "getEnergyValue"} => ret = <<0>>
          /\ call.op = "sampleLine" => ret = Zeros(call.n)
    /\ lastOp = "step" =>
          /\ Len(current) = cols * rows /\ Len(previous) = cols * rows
          /\ Len(wallMask) = cols * rows

\* C15's case: on the 0x3 grid, with an out-of-bounds source and a
\* zero-length wall registered, a step was taken and sampleLine called
C15_Witness ==
    /\ cols = 0 /\ rows = 3 /\ steps >= 1 /\ call.op = "sampleLine" /\ call.n = 3
    /\ \E j \in 1..Len(sources) : sources[j].x < 0
    /\ \E j \in 1..Len(walls) : walls[j].x1 = walls[j].x2 /\ walls[j].y1 = walls[j].y2

\* C16 as stated: on every grid, the 1-row, 1-column and empty ones included,
\* in both boundary modes, every array index a step or a point query reads
\* or writes lies in [0, cols*rows).
C16_IndexSafety ==
    /\ lastOp = "step" =>
          \A i \in StepIndices(wallMask, reflectiveBoundaries, energyTrailEnabled) :
              i >= 0 /\ i < cols * rows
    /\ call.op \in {"getValue", "getEnergyValue"} =>
          \A i \in QueryIndices(call.x, call.y) : i >= 0 /\ i < cols * rows

\* C17 as stated: for every waveSpeed >= 0, dt > 0 and grid size, the grids
\* of fewer than 16 cells included, a step returns, after exactly
\* max(1, ceil(waveSpeed*dt/0.5)) sweeps, and its guard loop advances by a
\* stride of at least 1.
C17_StepCompletes ==
    /\ lastOp # "stepping"
    /\ lastOp = "step" =>
          /\ sweeps = SubStepsOf(waveSpeed, dt)
          /\ GuardStride(cols * rows) >= 1

\* C18: applyImpulse only changes cells of current that are interior
\* (1 <= gx <= cols-2, 1 <= gy <= rows-2) and within grid distance
\* r = ceil(radius / cellSize) of the centre cell (floor(pixelX / cellSize),
\* floor(pixelY / cellSize)); every other cell of current, all of previous,
\* energyMap, wallMask and the source and wall lists stay as they were
C18_ImpulseFrame ==
    [][call'.op = "applyImpulse" =>
          /\ Len(current') = Len(current)
          /\ \E cx \in (-Abs(call'.pixelX) - 1)..(Abs(call'.pixelX) + 1),
                cy \in (-Abs(call'.pixelY) - 1)..(Abs(call'.pixelY) + 1),
                r \in 0..(Abs(call'.radius) + 1) :
                /\ cx * cellSize <= call'.pixelX /\ call'.pixelX < (cx + 1) * cellSize
                /\ cy * cellSize <= call'.pixelY /\ call'.pixelY < (cy + 1) * cellSize
                /\ (r - 1) * cellSize < call'.radius /\ call'.radius <= r * cellSize
                /\ \A gx \in 0..(cols - 1), gy \in 0..(rows - 1) :
                      current'[gy * cols + gx + 1] # current[gy * cols + gx + 1] =>
                          /\ 1 <= gx /\ gx <= cols - 2
                          /\ 1 <= gy /\ gy <= rows - 2
                          /\ (gx - cx) * (gx - cx) + (gy - cy) * (gy - cy) <= r * r
          /\ previous' = previous
          /\ energyMap' = energyMap
          /\ wallMask' = wallMask
          /\ sources' = sources
          /\ walls' = walls]_vars

\* an impulse of one cell radius on the 5x3 grid has raised the centre cell
\* and its interior neighbour and nothing else
C18_Witness ==
    /\ call.op = "applyImpulse" /\ call.radius = 2 /\ cols = 5 /\ rows = 3
    /\ current[cols + 2] = 16 /\ current[cols + 3] > 0 /\ current[cols + 4] = 0
    /\ current[cols + 1] = 0 /\ current[2] = 0

\* C19: on a grid with odd cols and rows, without walls and sources, after
\* impulses at the centre cell and any number of steps, current is symmetric
\* under the left-right mirror x -> cols-1-x and under the top-bottom mirror
\* y -> rows-1-y
C19_ImpulseSymmetry ==
    (cols % 2 = 1 /\ rows % 2 = 1 /\ Len(sources) = 0 /\ Len(walls) = 0) =>
        \A gx \in 0..(cols - 1), gy \in 0..(rows - 1) :
            /\ current[gy * cols + gx + 1] = current[gy * cols + (cols - 1 - gx) + 1]
            /\ current[gy * cols + gx + 1] = current[(rows - 1 - gy) * cols + gx + 1]

\* C20: for every source created by addOrbitalSource, whatever its centre,
\* a step advances orbitAngle by orbitSpeed and leaves the source at
\* centre + radius * (cos(orbitAngle), sin(orbitAngle)) with
\* (vx, vy) = 0.1 * (new position - old position); the linear velocity does
\* not displace it further.  (Positions are numerators over a denominator,
\* so the equalities are cross-multiplied.)
C20_OrbitalMotion ==
    [][lastOp' = "step" =>
          /\ Len(sources') = Len(sources)
          /\ \A k \in 1..Len(sources) :
                "orbitCenterX" \in DOMAIN sources[k] =>
                    LET old == sources[k]
                        new == sources'[k]
                        newX == new.orbitCenterX + new.orbitRadius * CosQ(new.orbitAngle)
                        newY == new.orbitCenterY + new.orbitRadius * SinQ(new.orbitAngle)
                    IN  /\ new.orbitAngle = old.orbitAngle + old.orbitSpeed
                        /\ new.orbitCenterX = old.orbitCenterX
                        /\ new.orbitCenterY = old.orbitCenterY
                        /\ new.orbitRadius = old.orbitRadius
                        /\ new.x * cellSize = newX * new.den
                        /\ new.y * cellSize = newY * new.den
                        /\ 10 * new.vx * cellSize * old.den
                              = (newX * old.den - old.x * cellSize) * new.den
                        /\ 10 * new.vy * cellSize * old.den
                              = (newY * old.den - old.y * cellSize) * new.den]_vars

\* the sum of a sequence of numbers
RECURSIVE SumSeq(_)
SumSeq(q) == IF Len(q) = 0 THEN 0 ELSE Head(q) + SumSeq(Tail(q))

\* what source src adds to the cell (gx, gy) in a step at the given time:
\* amplitude * sin(time * frequency + phase) when it is active and (gx, gy)
\* is the cell nearest to its position (halves go up), 0 otherwise
ContributionOf(src, gx, gy, time) ==
    IF /\ src.active
       /\ (2 * gx - 1) * cellSize <= 2 * src.x /\ 2 * src.x < (2 * gx + 1) * cellSize
       /\ (2 * gy - 1) * cellSize <= 2 * src.y /\ 2 * src.y < (2 * gy + 1) * cellSize
    THEN src.amplitude * SinQ(time * src.frequency + src.phase)
    ELSE 0

\* C21: a step injects once, before the first sub-step and whatever the
\* number of sub-steps: its result is that of the sub-step loop and the
\* guard on the field in which every cell has received the contributions of
\* the active sources whose rounded position is that cell; inactive sources
\* and sources outside the grid contribute to no cell.  (The sources here
\* have no velocity, so the effective frequency is the frequency.)
C21_InjectOnce ==
    [][call'.op = "step" /\ lastOp' = "step" =>
          LET injected == [i \in 1..(cols * rows) |->
                              current[i] + SumSeq([k \in 1..Len(sources) |->
                                  ContributionOf(sources[k], (i - 1) % cols, (i - 1) \div cols,
                                                 call'.time)])]
              run == SweepsOf(injected)
              guarded == stabilityGuard(run.cur, run.prev, velocity)
          IN  /\ sweeps' = SubStepsOf(waveSpeed, dt)
              /\ current' = guarded.cur
              /\ previous' = guarded.prev]_vars

\* a step of three sub-steps at time 1 with an active source on an interior
\* cell and one outside the grid
C21_Witness ==
    /\ call.op = "step" /\ call.time = 1 /\ sweeps = 3 /\ Len(sources) = 2
    /\ \E j \in 1..2 : sources[j].active /\ sources[j].x = 2 /\ sources[j].y = 2
    /\ \E j \in 1..2 : sources[j].x < 0
    /\ \E i \in AllCells : current[i] # 0

\* the interior cell next to (gx, gy): the adjacent one for an edge cell, the
\* diagonal one for a corner, the cell itself inside
InteriorNeighbour(gx, gy) ==
    getIndex(IF gx = 0 THEN 1 ELSE IF gx = cols - 1 THEN cols - 2 ELSE gx,
             IF gy = 0 THEN 1 ELSE IF gy = rows - 1 THEN rows - 2 ELSE gy)

\* C22: with reflectiveBoundaries on a grid of at least 3x3 cells, after
\* every step each non-corner edge cell of current holds the value of its
\* adjacent interior cell and each corner that of its diagonal interior
\* neighbour
C22_ReflectiveBoundary ==
    (lastOp = "step" /\ reflectiveBoundaries /\ cols >= 3 /\ rows >= 3) =>
        \A gx \in 0..(cols - 1), gy \in 0..(rows - 1) :
            current[getIndex(gx, gy) + 1] = current[InteriorNeighbour(gx, gy) + 1]

\* a reflecting step on the 5x3 grid that left a corner and the top edge
\* with a finite value other than 0
C22_Witness ==
    /\ lastOp = "step" /\ reflectiveBoundaries /\ cols = 5 /\ rows = 3
    /\ current[1] # 0 /\ IsFiniteJs(current[1])
    /\ current[2] # 0 /\ current[cols + 1] # 0

\* C23: after a refresh a cell is flagged exactly when some wall of the list
\* passes within the tolerance of the cell and the cell's position along
\* that wall is in none of that wall's slits, whatever the order of the
\* walls in the list
C23_MaskSemantics ==
    ~wallMaskDirty =>
        \A gx \in 0..(cols - 1), gy \in 0..(rows - 1) :
            (wallMask[getIndex(gx, gy) + 1] = 1) <=>
                \E k \in 1..Len(walls) :
                    /\ isPointOnWall(gx, gy, walls[k])
                    /\ \A j \in 1..Len(walls[k].slits) :
                          ~InSlit(gx, gy, walls[k], walls[k].slits[j])

\* C24: while the mask is not dirty, which is the case once a step has run
\* after the last addWall or clear, a step or a rebuildWallMask call leaves
\* wallMask as it is
C24_MaskIdempotence ==
    [][(~wallMaskDirty /\ lastOp' \in {"step", "rebuildWallMask"}) =>
          wallMask' = wallMask /\ ~wallMaskDirty']_vars

\* two steps after the only wall was added, the mask flagging its cells
C24_Witness ==
    /\ lastOp = "step" /\ steps = 2 /\ edits = 1 /\ Len(walls) = 1 /\ ~wallMaskDirty
    /\ \E i \in AllCells : wallMask[i] = 1
    /\ \E i \in AllCells : wallMask[i] = 0 /\ call.time = 1

\* the rounded position of the source is a cell of the grid (halves go up)
InsideGrid(src) ==
    /\ -cellSize <= 2 * src.x /\ 2 * src.x < (2 * cols - 1) * cellSize
    /\ -cellSize <= 2 * src.y /\ 2 * src.y < (2 * rows - 1) * cellSize

\* C25: when current and previous are all zero and no active source lies
\* inside the grid, a step leaves current and previous all zero, whatever
\* the wave speed, the boundary mode and the walls
C25_ZeroFixedPoint ==
    [][(/\ lastOp' = "step"
        /\ \A i \in AllCells : current[i] = 0 /\ previous[i] = 0
        /\ \A k \in 1..Len(sources) : ~(sources[k].active /\ InsideGrid(sources[k])))
       => \A i \in AllCells : current'[i] = 0 /\ previous'[i] = 0]_vars

\* a step at time 1 on the zero field with an inactive source on an interior
\* cell and a source outside the grid
C25_Witness ==
    /\ call.op = "step" /\ call.time = 1 /\ steps = 1 /\ Len(sources) = 2
    /\ \E j \in 1..2 : ~sources[j].active /\ sources[j].x = 2 /\ sources[j].y = 2
    /\ \E j \in 1..2 : sources[j].active /\ sources[j].x < 0
    /\ \A i \in AllCells : current[i] = 0 /\ previous[i] = 0

\* C26: a sampleLine call returns exactly numSamples values; a call that
\* asks for more than the buffer holds replaces the buffer with one of
\* exactly numSamples entries; and any two calls with numSamples of at most
\* the initial buffer length return views over the same buffer, so that the
\* values read through the earlier result are those the later call wrote
C26_BufferReuse ==
    [][call'.op = "sampleLine" =>
          /\ Len(ret') = call'.n
          /\ call'.n > Len(sampleBuffer) => Len(sampleBuffer') = call'.n
          /\ (held # NoView /\ held.n <= SampleBufferLen /\ call'.n <= SampleBufferLen) =>
                /\ held.buf = Len(sampleBuffer')
                /\ \A j \in 1..Min(held.n, call'.n) : sampleBuffer'[j] = ret'[j]]_vars

\* C26 as the code has it: the same, with the shared buffer promised to two
\* calls only when the buffer was not replaced between them, that is when the
\* earlier result is a view over the buffer the later call finds and the
\* later call asks for no more than that buffer holds
C26_BufferReuseUntilGrowth ==
    [][call'.op = "sampleLine" =>
          /\ Len(ret') = call'.n
          /\ call'.n > Len(sampleBuffer) => Len(sampleBuffer') = call'.n
          /\ (held # NoView /\ held.buf = Len(sampleBuffer) /\ call'.n <= Len(sampleBuffer)) =>
                /\ held.buf = Len(sampleBuffer')
                /\ \A j \in 1..Min(held.n, call'.n) : sampleBuffer'[j] = ret'[j]
                /\ \A j \in (call'.n + 1)..held.n : sampleBuffer'[j] = sampleBuffer[j]]_vars

\* a call for two samples has overwritten, with values other than 0, the
\* first entries of an earlier result of three entries that made the buffer grow
C26_Witness ==
    /\ call.op = "sampleLine" /\ call.n = 2 /\ held.n = 3 /\ held.buf = Len(sampleBuffer)
    /\ ret[1] # 0 /\ sampleBuffer[1] = ret[1] /\ sampleBuffer[2] = ret[2]

\* C27: in a step of one sub-step, without sources and on a finite field,
\* every unmasked interior cell receives (2c - p + waveSpeed^2 * subDt^2 * L)
\* * damping, clamped, with c, p and the Laplacian L all read from the field
\* as it stood when the sub-step began, and previous receives that c
C27_SimultaneousUpdate ==
    [][(/\ lastOp' = "step" /\ sweeps' = 1 /\ Len(sources) = 0
        /\ \A i \in AllCells : IsFiniteJs(current[i]) /\ IsFiniteJs(previous[i]))
       => LET g == GCD(waveSpeed * waveSpeed * dt * dt, 10000)
              c2n == (waveSpeed * waveSpeed * dt * dt) \div g
              c2d == 10000 \div g
              dg == GCD(Abs(damping), 1000)
              start == [cur |-> current, prev |-> previous]
          IN  \A gx \in 1..(cols - 2), gy \in 1..(rows - 2) :
                  wallMask'[getIndex(gx, gy) + 1] = 0 =>
                      /\ previous'[getIndex(gx, gy) + 1] = current[getIndex(gx, gy) + 1]
                      /\ current'[getIndex(gx, gy) + 1]
                            = OpenCell(start, getIndex(gx, gy), c2n, c2d, damping \div dg,
                                       1000 \div dg).cur[getIndex(gx, gy) + 1]]_vars

\* C28: applyImpulse with a radius >= 0 whose centre cell is interior adds
\* exactly the amplitude to the centre cell and leaves every cell of current
\* finite (the field being finite before the call)
C28_ImpulseCentre ==
    [][(/\ call'.op = "applyImpulse" /\ call'.radius >= 0
        /\ \A i \in AllCells : IsFiniteJs(current[i]))
       => \A cx \in 1..(cols - 2), cy \in 1..(rows - 2) :
              (/\ cx * cellSize <= call'.pixelX /\ call'.pixelX < (cx + 1) * cellSize
               /\ cy * cellSize <= call'.pixelY /\ call'.pixelY < (cy + 1) * cellSize)
              => /\ current'[getIndex(cx, cy) + 1]
                       = current[getIndex(cx, cy) + 1] + call'.amplitude
                 /\ \A i \in AllCells : IsFiniteJs(current'[i])]_vars

\* C29: onDegradationChange is called exactly when the degraded flag flips,
\* with the new flag, so that its arguments alternate true, false, true, ...
\* from true; the flag flips to true only after more than 180 * 16.67 ms of
\* window time below 30 FPS, and back only after more than 300 * 16.67 ms of
\* window time above 45 FPS with no window below 30 FPS in between
C29_Hysteresis ==
    [][/\ (notified' # notified) <=> (degradedRef' # degradedRef)
       /\ (notified' # notified) =>
             /\ notified' = Append(notified, degradedRef')
             /\ degradedRef' => 100 * lowTime' > DegradeHundredths
             /\ ~degradedRef' => 100 * highTime' > RecoverHundredths
       /\ \A k \in 1..Len(notified') : notified'[k] = (k % 2 = 1)]_vars

\* the flag has flipped to true, back to false and to true again
C29_Witness ==
    /\ notified = <<TRUE, FALSE, TRUE>> /\ degradedRef
    /\ 100 * lowTime > DegradeHundredths /\ highTime = 0

\* ------------------------------------------------- App: the pointer handlers
\* The handlers of the canvas with interactionMode 'source' and no probe
\* being placed.  Pointer positions are whole canvas pixels.
MaxEvents == 6

\* the square of Math.hypot(x - s.x * sim.cellSize, y - s.y * sim.cellSize),
\* as a fraction in lowest terms
PixelDist2(s, x, y) ==
    LET d == PosDen(s)
        dx == x * d - s.x * cellSize
        dy == y * d - s.y * cellSize
        g == GCD(d * d, dx * dx + dy * dy)
    IN  [n |-> (dx * dx + dy * dy) \div g, d |-> (d * d) \div g]

\* Math.hypot(...) < r
Within(s, x, y, r) == LET q == PixelDist2(s, x, y) IN q.n < r * r * q.d

\* handleMouseDown, e.button === 2: the index the forEach leaves in minIdx,
\* the first source at the least distance
Nearest(x, y) ==
    CHOOSE i \in 1..Len(sources) :
        \A j \in 1..Len(sources) :
            LET a == PixelDist2(sources[i], x, y)
                b == PixelDist2(sources[j], x, y)
            IN  IF j < i THEN a.n * b.d < b.n * a.d ELSE a.n * b.d <= b.n * a.d

\* Array.prototype.splice(k - 1, 1)
Spliced(seq, k) == SubSeq(seq, 1, k - 1) \o SubSeq(seq, k + 1, Len(seq))

\* handleMouseMove on the source it finds: x and y become the pointer's,
\* vx and vy a tenth of the displacement in cells
DraggedTo(s, x, y) ==
    LET d == PosDen(s)
    IN  Reduced([x |-> 10 * d * x, y |-> 10 * d * y,
                 vx |-> x * d - s.x * cellSize, vy |-> y * d - s.y * cellSize,
                 den |-> 10 * cellSize * d] @@ s)

\* handleMouseUp on the source it finds: source.vx = 0; source.vy = 0
Released(s) ==
    Reduced([x |-> s.x, y |-> s.y, vx |-> 0, vy |-> 0, den |-> PosDen(s)] @@ s)

\* the observer's part of a pointer or keyboard event
UiCalled(op, c) ==
    /\ lastOp # "stepping"
    /\ events < MaxEvents
    /\ events' = events + 1
    /\ lastOp' = op
    /\ call' = c
    /\ ret' = << >>
    /\ UNCHANGED <<taint, sweeps, subDt, held, steps, edits, perfVars>>

\* DEFAULT_CONTROLS: wavelength, amplitude and cellSize
Wavelength == 60
Amplitude == 1
CellSize == 4

\* sim.addSource(x, y, 2 * Math.PI / controls.wavelength, controls.amplitude):
\* the frequency is one turn per controls.wavelength, not a whole number of
\* quarter turns, and is kept as that fraction of a turn
UiSource(x, y) ==
    [x |-> x, y |-> y, frequency |-> [turns |-> 1, per |-> Wavelength],
     amplitude |-> Amplitude, phase |-> 0, active |-> TRUE]

handleMouseDown(x, y, button) ==
    /\ UiCalled("handleMouseDown", [op |-> "handleMouseDown", x |-> x, y |-> y])
    /\ UNCHANGED <<width, height, cellSize, cols, rows, sampleBuffer, current, previous,
                   velocity, energyMap, energyTrailEnabled, wallMask, wallMaskDirty,
                   waveSpeed, damping, dt, walls, reflectiveBoundaries, timeRef>>
    /\ IF button = 2
       THEN /\ IF Len(sources) > 0 /\ Within(sources[Nearest(x, y)], x, y, 30)
               THEN /\ sources' = Spliced(sources, Nearest(x, y))
                    /\ sourceIds' = Spliced(sourceIds, Nearest(x, y))
               ELSE UNCHANGED <<sources, sourceIds>>
            /\ UNCHANGED <<isDraggingRef, dragSourceRef, nextId, dragged>>
       ELSE IF \E i \in 1..Len(sources) : Within(sources[i], x, y, 14)
            THEN LET i == CHOOSE k \in 1..Len(sources) :
                              /\ Within(sources[k], x, y, 14)
                              /\ \A j \in 1..(k - 1) : ~Within(sources[j], x, y, 14)
                 IN  /\ isDraggingRef' = TRUE
                     /\ dragSourceRef' = i - 1
                     /\ dragged' = sourceIds[i]
                     /\ UNCHANGED <<sources, sourceIds, nextId>>
            ELSE /\ Len(sources) < MaxSources
                 /\ sources' = Append(sources, UiSource(x, y))
                 /\ sourceIds' = Append(sourceIds, nextId)
                 /\ nextId' = nextId + 1
                 /\ UNCHANGED <<isDraggingRef, dragSourceRef, dragged>>

handleMouseMove(x, y) ==
    /\ UiCalled("handleMouseMove", [op |-> "handleMouseMove", x |-> x, y |-> y])
    /\ UNCHANGED <<width, height, cellSize, cols, rows, sampleBuffer, current, previous,
                   velocity, energyMap, energyTrailEnabled, wallMask, wallMaskDirty,
                   waveSpeed, damping, dt, walls, reflectiveBoundaries, timeRef,
                   isDraggingRef, dragSourceRef, sourceIds, nextId, dragged>>
    /\ IF isDraggingRef /\ dragSourceRef + 1 \in 1..Len(sources)
       THEN sources' = [sources EXCEPT ![dragSourceRef + 1] = DraggedTo(@, x, y)]
       ELSE UNCHANGED sources

handleMouseUp ==
    /\ UiCalled("handleMouseUp", [op |-> "handleMouseUp"])
    /\ UNCHANGED <<width, height, cellSize, cols, rows, sampleBuffer, current, previous,
                   velocity, energyMap, energyTrailEnabled, wallMask, wallMaskDirty,
                   waveSpeed, damping, dt, walls, reflectiveBoundaries, timeRef,
                   sourceIds, nextId>>
    /\ IF isDraggingRef /\ dragSourceRef + 1 \in 1..Len(sources)
       THEN sources' = [sources EXCEPT ![dragSourceRef + 1] = Released(@)]
       ELSE UNCHANGED sources
    /\ isDraggingRef' = FALSE
    /\ dragSourceRef' = -1
    /\ dragged' = 0

\* PRESETS: the presets without walls and with one source in the middle of
\* the canvas, as <<reflective, sources>> with the sources in fractions of
\* the canvas over 2
PresetChoices == {<<FALSE, << <<1, 1>> >> >>, <<TRUE, << <<1, 1>> >> >>}

\* loadPreset: sim.clear(), the preset's boundaries and sources, timeRef 0
loadPreset(preset) ==
    /\ UiCalled("loadPreset", [op |-> "loadPreset"])
    /\ current' = Zeros(Len(current))
    /\ previous' = Zeros(Len(previous))
    /\ velocity' = Zeros(Len(velocity))
    /\ energyMap' = Zeros(Len(energyMap))
    /\ wallMask' = Zeros(Len(wallMask))
    /\ walls' = << >>
    /\ wallMaskDirty' = TRUE
    /\ reflectiveBoundaries' = preset[1]
    /\ sources' = [k \in 1..Len(preset[2]) |->
                      UiSource((preset[2][k][1] * width) \div 2,
                               (preset[2][k][2] * height) \div 2)]
    /\ sourceIds' = [k \in 1..Len(preset[2]) |-> nextId + k - 1]
    /\ nextId' = nextId + Len(preset[2])
    /\ timeRef' = 0
    /\ UNCHANGED <<width, height, cellSize, cols, rows, sampleBuffer, energyTrailEnabled,
                   waveSpeed, damping, dt, isDraggingRef, dragSourceRef, dragged>>

\* clearSimulation: sim.clear(), timeRef 0
clearSimulation ==
    /\ UiCalled("clearSimulation", [op |-> "clearSimulation"])
    /\ current' = Zeros(Len(current))
    /\ previous' = Zeros(Len(previous))
    /\ velocity' = Zeros(Len(velocity))
    /\ energyMap' = Zeros(Len(energyMap))
    /\ wallMask' = Zeros(Len(wallMask))
    /\ sources' = << >>
    /\ walls' = << >>
    /\ wallMaskDirty' = TRUE
    /\ sourceIds' = << >>
    /\ timeRef' = 0
    /\ UNCHANGED <<width, height, cellSize, cols, rows, sampleBuffer, energyTrailEnabled,
                   waveSpeed, damping, dt, reflectiveBoundaries,
                   isDraggingRef, dragSourceRef, nextId, dragged>>

\* animate while isPlaying: sim.step(timeRef.current); timeRef.current += 1.
\* The frame is the one at time 0, the first after the page is shown, a
\* preset is loaded or the simulation is cleared, where the sine of a moving
\* source is the sine of its phase
animate ==
    /\ timeRef = 0
    /\ stepAt(timeRef)
    /\ timeRef' = timeRef + 1

PointerChoices == {<<4, 4>>, <<20, 4>>, <<4, 20>>}

\* resizeCanvas on a canvas of 24 by 24 pixels: the simulation of the
\* default controls, whose waveSpeed, damping and boundaries are those of
\* the constructor
InitDrag ==
    /\ Constructed(24, 24, CellSize)
    /\ Observer0

NextDrag ==
    \/ \E p \in PointerChoices : \E button \in {0, 2} : handleMouseDown(p[1], p[2], button)
    \/ \E p \in PointerChoices : handleMouseMove(p[1], p[2])
    \/ handleMouseUp
    \/ \E preset \in PresetChoices : loadPreset(preset)
    \/ clearSimulation
    \/ animate

SpecDrag == InitDrag /\ [][NextDrag]_vars

\* C30: while a drag is in progress, a mouse-move puts the source object the
\* mouse-down picked at the pointer, with a tenth of its displacement as its
\* velocity, and changes no other source, and the mouse-up sets the velocity
\* of that object to 0 and changes no other source, whatever removals,
\* preset loads, clears and frames came in between.
C30_DragIntegrity ==
    [][(isDraggingRef /\ lastOp' \in {"handleMouseMove", "handleMouseUp"}) =>
          /\ \A k \in 1..Len(sources) :
                sourceIds[k] # dragged => /\ k <= Len(sources')
                                          /\ sources'[k] = sources[k]
          /\ \A k \in 1..Len(sources) :
                sourceIds[k] = dragged =>
                   /\ k <= Len(sources')
                   /\ sources'[k] = IF lastOp' = "handleMouseMove"
                                    THEN DraggedTo(sources[k], call'.x, call'.y)
                                    ELSE Released(sources[k])]_vars

====
